---- MODULE Spec2Model ----
(***************************************************************************)
(* Calendar-unit addition (src/addition.rs) and the BaseInterval trait     *)
(* (src/interval/base.rs) of the dateutil crate.                           *)
(*                                                                         *)
(* Every function of the crate is pure.  A state is one call: the          *)
(* arguments (date, months_to_add, self), the function applied (fn) and    *)
(* what the call produced (ret).  Init draws the arguments, one action per *)
(* function applies it.                                                    *)
(*                                                                         *)
(* A NaiveDate is a record [year, month, day].  A call that panics         *)
(* produces Panic; an Option is None or Some(d); a Bound is Included(d),   *)
(* Excluded(d) or Unbounded.                                               *)
(***************************************************************************)
EXTENDS Integers, FiniteSets, Sequences, TLC

VARIABLES date, months_to_add, self, fn, ret

vars == <<date, months_to_add, self, fn, ret>>

(***************************************************************************)
(* Bounds of the model.                                                    *)
(***************************************************************************)
\* months_to_add ranges over 0..MaxMonthsToAdd
MaxMonthsToAdd == 14
\* the addition functions are applied to every date of DocYear..DocYear+YearSpan
\* and of the first and the last representable year
YearSpan == 2
\* interval bounds and probes lie within Reach days of the anchor dates
Reach == 1

\* the year of the examples and tests of the source
DocYear == 2022

(***************************************************************************)
(* chrono::NaiveDate, as far as the crate uses it.                         *)
(***************************************************************************)
MIN_YEAR == -(2^18)
MAX_YEAR == 2^18 - 1

Panic == [panic |-> TRUE]
None == [some |-> FALSE]
Some(d) == [some |-> TRUE, value |-> d]

Ymd(y, m, d) == [year |-> y, month |-> m, day |-> d]

is_leap_year(y) == y % 4 = 0 /\ (y % 100 # 0 \/ y % 400 = 0)

\* number of days of month m (1..12) of year y
DaysInMonth(y, m) ==
    IF m = 2 THEN (IF is_leap_year(y) THEN 29 ELSE 28)
    ELSE IF m \in {4, 6, 9, 11} THEN 30 ELSE 31

\* NaiveDate::from_ymd_opt(..).is_some()
ValidYmd(y, m, d) ==
    /\ y \in MIN_YEAR..MAX_YEAR
    /\ m \in 1..12
    /\ d \in 1..DaysInMonth(y, m)

\* NaiveDate::from_ymd: panics on an out-of-range date, invalid month or day
from_ymd(y, m, d) == IF ValidYmd(y, m, d) THEN Ymd(y, m, d) ELSE Panic

MIN_DATE == Ymd(MIN_YEAR, 1, 1)
MAX_DATE == Ymd(MAX_YEAR, 12, 31)

\* NaiveDate::succ_opt: the next day, None after the last representable date
succ_opt(d) ==
    IF d = MAX_DATE THEN None
    ELSE IF d.day < DaysInMonth(d.year, d.month)
         THEN Some(Ymd(d.year, d.month, d.day + 1))
    ELSE IF d.month < 12 THEN Some(Ymd(d.year, d.month + 1, 1))
    ELSE Some(Ymd(d.year + 1, 1, 1))

\* NaiveDate::pred_opt: the previous day, None before the first representable date
pred_opt(d) ==
    IF d = MIN_DATE THEN None
    ELSE IF d.day > 1 THEN Some(Ymd(d.year, d.month, d.day - 1))
    ELSE IF d.month > 1
         THEN Some(Ymd(d.year, d.month - 1, DaysInMonth(d.year, d.month - 1)))
    ELSE Some(Ymd(d.year - 1, 12, 31))

\* Ord for NaiveDate: chronological order
DateLT(a, b) ==
    \/ a.year < b.year
    \/ a.year = b.year /\ a.month < b.month
    \/ a.year = b.year /\ a.month = b.month /\ a.day < b.day

DateLE(a, b) == a = b \/ DateLT(a, b)

(***************************************************************************)
(* std::ops::Bound                                                         *)
(***************************************************************************)
Included(d) == [tag |-> "Included", value |-> d]
Excluded(d) == [tag |-> "Excluded", value |-> d]
Unbounded == [tag |-> "Unbounded"]

(***************************************************************************)
(* crate::util::month_end(year, month): the last day of the month.  The    *)
(* month must be in 1..12 and the year representable; otherwise the call   *)
(* is fatal.                                                               *)
(***************************************************************************)
month_end(year, month) ==
    IF year \in MIN_YEAR..MAX_YEAR /\ month \in 1..12
    THEN Ymd(year, month, DaysInMonth(year, month))
    ELSE Panic

(***************************************************************************)
(* crate::interval::bound::within(date, start, end)                        *)
(***************************************************************************)
bound_within(d, start, end) ==
    /\ CASE start.tag = "Included" -> DateLE(start.value, d)
         [] start.tag = "Excluded" -> DateLT(start.value, d)
         [] start.tag = "Unbounded" -> TRUE
    /\ CASE end.tag = "Included" -> DateLE(d, end.value)
         [] end.tag = "Excluded" -> DateLT(d, end.value)
         [] end.tag = "Unbounded" -> TRUE

(***************************************************************************)
(* src/addition.rs                                                         *)
(***************************************************************************)
Min(a, b) == IF a <= b THEN a ELSE b

\* the rollover with the comparison off by one
TargetMonth_ge(d, m) ==
    LET month_delta == d.month + m
    IN  IF month_delta >= 12
        THEN [year |-> d.year + 1, month |-> month_delta - 12]
        ELSE [year |-> d.year, month |-> month_delta]

\* the (year, month) the rollover of add_months_duration computes
TargetMonth(d, m) ==
    LET month_delta == d.month + m
    IN  IF month_delta > 12
        THEN [year |-> d.year + 1, month |-> month_delta - 12]
        ELSE [year |-> d.year, month |-> month_delta]

add_months_duration(d, m) ==
    LET t == TargetMonth(d, m)
        date_end_of_month == month_end(d.year, d.month)
        target_end == month_end(t.year, t.month)
    IN  IF target_end = Panic THEN Panic
        ELSE LET day == IF date_end_of_month.day = d.day
                        THEN target_end.day
                        ELSE Min(d.day, target_end.day)
             IN  from_ymd(t.year, t.month, day)

\* the wrapper with the wrong count
add_month_duration_two(d) == add_months_duration(d, 2)

add_month_duration(d) == add_months_duration(d, 1)

add_quarter_duration(d) ==
    IF d.month >= 10
    THEN from_ymd(d.year + 1, 1, d.day)
    ELSE from_ymd(d.year, d.month + 3, d.day)

add_year_duration(d) == from_ymd(d.year + 1, d.month, d.day)

(***************************************************************************)
(* src/interval/base.rs                                                    *)
(***************************************************************************)
Interval(s, e) == [start |-> s, end |-> e]

\* start_date without the step over an excluded bound
start_date_no_step(i) ==
    CASE i.start.tag = "Included" -> Some(i.start.value)
      [] i.start.tag = "Excluded" -> Some(i.start.value)
      [] i.start.tag = "Unbounded" -> None

start_date(i) ==
    CASE i.start.tag = "Included" -> Some(i.start.value)
      [] i.start.tag = "Excluded" -> succ_opt(i.start.value)
      [] i.start.tag = "Unbounded" -> None

\* end_date without the step over an excluded bound
end_date_no_step(i) ==
    CASE i.end.tag = "Included" -> Some(i.end.value)
      [] i.end.tag = "Excluded" -> Some(i.end.value)
      [] i.end.tag = "Unbounded" -> None

end_date(i) ==
    CASE i.end.tag = "Included" -> Some(i.end.value)
      [] i.end.tag = "Excluded" -> pred_opt(i.end.value)
      [] i.end.tag = "Unbounded" -> None

\* within with the two bounds passed in the wrong order
within_swapped(i, d) == bound_within(d, i.end, i.start)

within(i, d) == bound_within(d, i.start, i.end)

(***************************************************************************)
(* The arguments the calls are made with.                                  *)
(***************************************************************************)
Years == (DocYear..(DocYear + YearSpan)) \cup {MIN_YEAR, MAX_YEAR}

\* every valid date of Years
Dates == {x \in [year : Years, month : 1..12, day : 1..31] :
             ValidYmd(x.year, x.month, x.day)}

RECURSIVE After(_, _)
After(d, n) ==
    IF n = 0 \/ ~succ_opt(d).some THEN {d}
    ELSE {d} \cup After(succ_opt(d).value, n - 1)

RECURSIVE Before(_, _)
Before(d, n) ==
    IF n = 0 \/ ~pred_opt(d).some THEN {d}
    ELSE {d} \cup Before(pred_opt(d).value, n - 1)

\* the first and last representable date, the bounds of the interval of the
\* tests, and the end of a leap February
Anchors == {MIN_DATE, MAX_DATE, Ymd(DocYear, 1, 1), Ymd(DocYear, 12, 31),
            Ymd(DocYear + 2, 2, 29)}

\* the probes of tests::test_within
TestProbes == {Ymd(DocYear, 5, 18), Ymd(DocYear + 1, 5, 18)}

ProbeDates == TestProbes \cup
              UNION {After(a, Reach) \cup Before(a, Reach) : a \in Anchors}

Bounds == {Unbounded} \cup {Included(d) : d \in ProbeDates}
                      \cup {Excluded(d) : d \in ProbeDates}

Intervals == {Interval(s, e) : s \in Bounds, e \in Bounds}

NoResult == [pending |-> TRUE]

InitAddition ==
    /\ date \in Dates
    /\ months_to_add \in 0..MaxMonthsToAdd
    /\ self = Interval(Unbounded, Unbounded)

InitInterval ==
    /\ date \in ProbeDates
    /\ months_to_add = 1
    /\ self \in Intervals

Init ==
    /\ fn = "none"
    /\ ret = NoResult
    /\ (InitAddition \/ InitInterval)

Call(name, result) ==
    /\ fn = "none"
    /\ fn' = name
    /\ ret' = result
    /\ UNCHANGED <<date, months_to_add, self>>

AddMonthsDuration == Call("add_months_duration", add_months_duration(date, months_to_add))
AddMonthDuration == Call("add_month_duration", add_month_duration(date))
AddQuarterDuration == Call("add_quarter_duration", add_quarter_duration(date))
AddYearDuration == Call("add_year_duration", add_year_duration(date))
StartDate == Call("start_date", start_date(self))
EndDate == Call("end_date", end_date(self))
Within == Call("within", within(self, date))

Next ==
    \/ AddMonthsDuration
    \/ AddMonthDuration
    \/ AddQuarterDuration
    \/ AddYearDuration
    \/ StartDate
    \/ EndDate
    \/ Within

Spec == Init /\ [][Next]_vars

(***************************************************************************)
(* Properties.                                                             *)
(***************************************************************************)
IsDate(r) ==
    /\ DOMAIN r = {"year", "month", "day"}
    /\ ValidYmd(r.year, r.month, r.day)

IsMonthEnd(d) == d.day = DaysInMonth(d.year, d.month)

\* months since year 0 of the month of d
MonthIndex(d) == 12 * d.year + d.month

\* the calendar month n months after the month of d
MonthAfter(d, n) ==
    LET idx == MonthIndex(d) - 1 + n
    IN  [year |-> idx \div 12, month |-> (idx % 12) + 1]

RECURSIVE DaysBeforeMonth(_, _)
DaysBeforeMonth(y, m) ==
    IF m = 1 THEN 0 ELSE DaysBeforeMonth(y, m - 1) + DaysInMonth(y, m - 1)

\* the number of the day in the proleptic Gregorian calendar
DayNumber(d) ==
    LET y1 == d.year - 1
    IN  365 * y1 + (y1 \div 4) - (y1 \div 100) + (y1 \div 400)
        + DaysBeforeMonth(d.year, d.month) + d.day

\* C1: add_months_duration(D, m) is a valid calendar date for every valid D
\* and every m >= 0; the call never fails.
C1_MonthsResultValid ==
    fn = "add_months_duration" => IsDate(ret)

\* C2: if D is the last day of its month, add_months_duration(D, m) is the
\* last day of the month it lands in, for every m >= 0.
C2_EndOfMonthPreserved ==
    (fn = "add_months_duration" /\ IsMonthEnd(date))
        => (IsDate(ret) /\ IsMonthEnd(ret))

\* C3: if D is not the last day of its month, the day of
\* add_months_duration(D, m) is min(D.day, length of the target month), the
\* target month being the calendar month m months after D's.
C3_DayOfMonthPreserved ==
    (fn = "add_months_duration" /\ ~IsMonthEnd(date))
        => LET t == MonthAfter(date, months_to_add)
           IN  /\ IsDate(ret)
               /\ ret.day = Min(date.day, DaysInMonth(t.year, t.month))

\* C4: when D's day exists in the month three months after D's,
\* add_quarter_duration(D) lies in that month and keeps D's day.
C4_QuarterIsThreeMonths ==
    LET t == MonthAfter(date, 3)
    IN  (fn = "add_quarter_duration" /\ date.day <= DaysInMonth(t.year, t.month))
            => /\ IsDate(ret)
               /\ MonthIndex(ret) = MonthIndex(date) + 3
               /\ ret.day = date.day

\* C5: add_quarter_duration and add_year_duration return a valid calendar
\* date for every valid D and never fail.
C5_QuarterYearTotal ==
    fn \in {"add_quarter_duration", "add_year_duration"} => IsDate(ret)

\* C6: within(D) is true exactly when D satisfies the lower bound (>= for
\* Included, > for Excluded, always for Unbounded) and the upper bound (<= for
\* Included, < for Excluded, always for Unbounded).
C6_WithinBounds ==
    fn = "within" =>
        LET lower == \/ self.start.tag = "Unbounded"
                     \/ self.start.tag = "Included"
                            /\ DayNumber(date) >= DayNumber(self.start.value)
                     \/ self.start.tag = "Excluded"
                            /\ DayNumber(date) > DayNumber(self.start.value)
            upper == \/ self.end.tag = "Unbounded"
                     \/ self.end.tag = "Included"
                            /\ DayNumber(date) <= DayNumber(self.end.value)
                     \/ self.end.tag = "Excluded"
                            /\ DayNumber(date) < DayNumber(self.end.value)
        IN  ret = (lower /\ upper)

\* the second probe of tests::test_within is rejected
C6_Witness ==
    /\ fn = "within"
    /\ self = Interval(Included(Ymd(DocYear, 1, 1)), Included(Ymd(DocYear, 12, 31)))
    /\ date = Ymd(DocYear + 1, 5, 18)
    /\ ret = FALSE

\* ret is Some(the date n days after d)
IsSomeDayAfter(r, d, n) ==
    /\ r.some
    /\ IsDate(r.value)
    /\ DayNumber(r.value) = DayNumber(d) + n

\* C7: start_date() is Some(d) for Included(d), Some(d + 1 day) for
\* Excluded(d), None for Unbounded; end_date() is Some(d) for Included(d),
\* Some(d - 1 day) for Excluded(d), None for Unbounded; an Excluded bound at
\* the last (start) or first (end) representable date gives None.
C7_DerivedEndpoints ==
    /\ fn = "start_date" =>
          CASE self.start.tag = "Included" -> ret = Some(self.start.value)
            [] self.start.tag = "Excluded" ->
                  IF self.start.value = MAX_DATE THEN ret = None
                  ELSE IsSomeDayAfter(ret, self.start.value, 1)
            [] self.start.tag = "Unbounded" -> ret = None
    /\ fn = "end_date" =>
          CASE self.end.tag = "Included" -> ret = Some(self.end.value)
            [] self.end.tag = "Excluded" ->
                  IF self.end.value = MIN_DATE THEN ret = None
                  ELSE IsSomeDayAfter(ret, self.end.value, -1)
            [] self.end.tag = "Unbounded" -> ret = None

\* end_date() steps back from an excluded 1 March to 29 February of a leap year
C7_Witness ==
    /\ fn = "end_date"
    /\ self.end = Excluded(Ymd(DocYear + 2, 3, 1))
    /\ ret = Some(Ymd(DocYear + 2, 2, 29))

\* C8: add_month_duration(D) equals add_months_duration(D, 1).
C8_MonthIsMonthsOne ==
    fn = "add_month_duration" => ret = add_months_duration(date, 1)

\* the second example of add_month_duration's documentation
C8_Witness ==
    /\ fn = "add_month_duration"
    /\ date = Ymd(DocYear, 2, 3)
    /\ ret = Ymd(DocYear, 3, 3)

\* the result lies in the month m months after D's, the year one more when
\* D.month + m > 12 and unchanged otherwise, and adding 0 months gives D
LandsInMonth(r, d, m) ==
    /\ IsDate(r)
    /\ MonthIndex(r) = MonthIndex(d) + m
    /\ r.year = d.year + (IF d.month + m > 12 THEN 1 ELSE 0)
    /\ (m = 0 => r = d)

C10_EndpointsAgreeWithWithin ==
    (/\ fn = "within"
     /\ self.start.tag # "Unbounded"
     /\ self.end.tag # "Unbounded"
     /\ start_date(self).some
     /\ end_date(self).some)
        => ret = (/\ DayNumber(start_date(self).value) <= DayNumber(date)
                  /\ DayNumber(date) <= DayNumber(end_date(self).value))

\* the derived endpoints of Excluded(A)..Excluded(A + 1 day) cross, and the
\* interval rejects A + 1 day
C10_Witness ==
    /\ fn = "within"
    /\ self = Interval(Excluded(Ymd(DocYear, 12, 31)), Excluded(Ymd(DocYear + 1, 1, 1)))
    /\ date = Ymd(DocYear + 1, 1, 1)
    /\ DateLT(end_date(self).value, start_date(self).value)
    /\ ret = FALSE

====
